---- MODULE Spec2Model ----
(***************************************************************************)
(* Campus laundry management (src/app.py): a Flask application over a      *)
(* SQLite store with four tables (students, laundry, complaints,           *)
(* notifications) and a cookie session holding 'user_id' and 'is_admin'.   *)
(*                                                                         *)
(* A row's id is its position in its table: ids are INTEGER PRIMARY KEY,   *)
(* rows are appended and never deleted.                                    *)
(***************************************************************************)
EXTENDS Integers, Sequences, FiniteSets, TLC

\* ------------------------------------------------------------- bounds
MaxStudents == 2
\* rows of laundry, complaints and notifications together
MaxRows == 2
MaxTime == 2
MaxWorkers == 2

\* ------------------------------------------------------------- inputs
Names == {"alice", "bob"}
\* request.form['password'] at registration and at login
RegPasswords == {"pw"}
LoginNames == Names \cup {"admin"}
LoginPasswords == {"pw", "admin123"}
Rooms == {"101"}
Genders == {"F"}
\* request.form['status']: the literals of the spec plus free text
Statuses == {"pending", "washing", "complete", "collected"}
\* request.form['response'], request.form['description']
Responses == {"r1", "r2"}
Descriptions == {"torn"}
Methods == {"GET", "POST"}
\* datetime.now()
Times == 1..MaxTime
\* ids a client may put in a URL or a form: those of the table's rows and a missing one
Ids(table) == 1..(Len(table) + 1)

\* NULL of a TEXT / TIMESTAMP column
NULL == "NULL"
NoTime == 0

\* ------------------------------------------------------------- messages
\* a notification's message: the fixed text and the text formatted into it
ReadyMsg == <<"Your laundry is ready for collection!", "">>
LimitMsg == "You have reached the maximum limit of active laundry bags!"
DuplicateMsg == "Student already registered!"
ResolvedMsg(response) == <<"Your complaint has been resolved. Response: ", response>>

VARIABLES
    db,         \* the committed store: the four tables
    session,    \* the browser session: user_id (0 = key absent), is_admin
    req,        \* the request handled last
    resp,       \* its response
    racing,     \* submit_laundry requests in flight, one per worker thread
    txn         \* an admin request in flight, statement by statement

\* the requests in flight
stepwise == <<racing, txn>>

vars == <<db, session, req, resp, racing, txn>>

\* ------------------------------------------------------------- requests and responses
\* the inputs a handler read: the form, the URL's id, and the clock
Req(op, method, id, full_name, password, status, text, now) ==
    [op |-> op, method |-> method, id |-> id, full_name |-> full_name,
     password |-> password, status |-> status, text |-> text, now |-> now]

Get(op) == Req(op, "GET", 0, "", "", "", "", NoTime)
Post(op) == Req(op, "POST", 0, "", "", "", "", NoTime)

Redirect(to, flash) == [kind |-> "redirect", to |-> to, flash |-> flash, view |-> <<>>]
Render(template, flash, view) == [kind |-> "render", to |-> template, flash |-> flash, view |-> view]
\* an exception no handler catches: the framework's fault page
Fault(exception) == [kind |-> "fault", to |-> exception, flash |-> "", view |-> <<>>]

\* ------------------------------------------------------------- the store
EmptyDb == [students |-> <<>>, laundry |-> <<>>, complaints |-> <<>>, notifications |-> <<>>]

EmptySession == [user_id |-> 0, is_admin |-> FALSE]

\* SELECT * FROM students WHERE full_name = ? AND password = ?; fetchone()
SelectStudent(d, full_name, password) ==
    LET found == {i \in DOMAIN d.students :
                     /\ d.students[i].full_name = full_name
                     /\ d.students[i].password = password}
    IN IF found = {} THEN 0 ELSE CHOOSE i \in found : \A j \in found : i <= j

\* a students table without the UNIQUE constraint
UniqueViolation_None(d, full_name) == FALSE

\* full_name TEXT UNIQUE
UniqueViolation(d, full_name) ==
    \E i \in DOMAIN d.students : d.students[i].full_name = full_name

InsertStudent(d, full_name, password, room_number, gender) ==
    [d EXCEPT !.students = Append(@, [full_name |-> full_name, password |-> password,
                                      room_number |-> room_number, gender |-> gender])]

\* a count of the 'pending' bags only
count_active_laundry_Pending(d, student_id) ==
    Cardinality({i \in DOMAIN d.laundry :
                    /\ d.laundry[i].student_id = student_id
                    /\ d.laundry[i].status = "pending"})

\* a count that leaves out the 'collected' bags only
count_active_laundry_Complete(d, student_id) ==
    Cardinality({i \in DOMAIN d.laundry :
                    /\ d.laundry[i].student_id = student_id
                    /\ d.laundry[i].status # "collected"})

count_active_laundry(d, student_id) ==
    Cardinality({i \in DOMAIN d.laundry :
                    /\ d.laundry[i].student_id = student_id
                    /\ d.laundry[i].status \notin {"collected", "complete"}})

\* a limit that lets a third bag in
LimitReached_Over(active_count) == active_count > 2

\* a limit of one bag
LimitReached_One(active_count) == active_count >= 1

\* if active_count >= 2
LimitReached(active_count) == active_count >= 2

\* an INSERT that replaces the table's rows
InsertLaundry_Fresh(d, student_id) ==
    [d EXCEPT !.laundry = <<[student_id |-> student_id, status |-> "pending"]>>]

InsertLaundry(d, student_id) ==
    [d EXCEPT !.laundry = Append(@, [student_id |-> student_id, status |-> "pending"])]

\* status defaults to 'pending'; admin_response and date_resolved to NULL.
\* No foreign key is enforced (sqlite3 leaves PRAGMA foreign_keys off).
InsertComplaint(d, student_id, laundry_id, description) ==
    [d EXCEPT !.complaints = Append(@, [student_id |-> student_id, laundry_id |-> laundry_id,
                                        description |-> description, status |-> "pending",
                                        admin_response |-> NULL, date_resolved |-> NoTime])]

\* is_read defaults to 0
InsertNotification(d, student_id, message) ==
    [d EXCEPT !.notifications = Append(@, [student_id |-> student_id, message |-> message,
                                           is_read |-> FALSE])]

\* UPDATE laundry SET status = ? WHERE id = ?  (no row: no effect)
UpdateLaundryStatus(d, laundry_id, new_status) ==
    IF laundry_id \in DOMAIN d.laundry
    THEN [d EXCEPT !.laundry[laundry_id].status = new_status]
    ELSE d

\* an UPDATE that leaves a complaint already resolved as it is
UpdateComplaintResolved_Once(d, complaint_id, response, now) ==
    IF complaint_id \in DOMAIN d.complaints /\ d.complaints[complaint_id].status = "pending"
    THEN [d EXCEPT !.complaints[complaint_id].status = "resolved",
                   !.complaints[complaint_id].admin_response = response,
                   !.complaints[complaint_id].date_resolved = now]
    ELSE d

\* an UPDATE that sets the status and the response and leaves date_resolved
UpdateComplaintResolved_NoDate(d, complaint_id, response, now) ==
    IF complaint_id \in DOMAIN d.complaints
    THEN [d EXCEPT !.complaints[complaint_id].status = "resolved",
                   !.complaints[complaint_id].admin_response = response]
    ELSE d

\* UPDATE complaints SET status = 'resolved', admin_response = ?, date_resolved = ? WHERE id = ?
UpdateComplaintResolved(d, complaint_id, response, now) ==
    IF complaint_id \in DOMAIN d.complaints
    THEN [d EXCEPT !.complaints[complaint_id].status = "resolved",
                   !.complaints[complaint_id].admin_response = response,
                   !.complaints[complaint_id].date_resolved = now]
    ELSE d

\* an UPDATE that flips the flag
UpdateNotificationRead_Toggle(d, notification_id) ==
    IF notification_id \in DOMAIN d.notifications
    THEN [d EXCEPT !.notifications[notification_id].is_read = ~@]
    ELSE d

\* UPDATE notifications SET is_read = 1 WHERE id = ?
UpdateNotificationRead(d, notification_id) ==
    IF notification_id \in DOMAIN d.notifications
    THEN [d EXCEPT !.notifications[notification_id].is_read = TRUE]
    ELSE d

\* ------------------------------------------------------------- initial state
Workers == 1..MaxWorkers

\* a worker before its first request: pc, and the handler's locals
IdleWorker == [pc |-> "idle", student_id |-> 0, active_count |-> 0]

\* no admin request in flight: pc, the handler's inputs and locals, the exception
\* raised, and the connection's transaction (open, with its uncommitted view tx)
IdleTxn == [pc |-> "idle", op |-> "", id |-> 0, status |-> "", response |-> "",
            now |-> NoTime, student_id |-> 0, raised |-> "", open |-> FALSE,
            tx |-> EmptyDb]

Init ==
    /\ db = EmptyDb
    /\ session = EmptySession
    /\ req = Get("start")
    /\ resp = Render("index.html", "", <<>>)
    /\ racing = [w \in Workers |-> IdleWorker]
    /\ txn = IdleTxn

\* 'user_id' in session
StudentGate(sess) == sess.user_id # 0

\* a gate any logged-in session passes
AdminGate_AnyLogin(sess) == sess.is_admin \/ sess.user_id # 0

\* 'is_admin' in session
AdminGate(sess) == sess.is_admin

\* ------------------------------------------------------------- handlers, one request at a time
\* A handler reads the form and the URL's id only after its session gate, and
\* the form only of a POST: req holds the inputs the handler read.
login ==
    \/ /\ req' = Get("login")
       /\ resp' = Render("login.html", "", <<>>)
       /\ UNCHANGED <<db, session, stepwise>>
    \/ \E full_name \in LoginNames, password \in LoginPasswords :
        /\ req' = Req("login", "POST", 0, full_name, password, "", "", NoTime)
        /\ IF full_name = "admin" /\ password = "admin123"
           THEN /\ session' = [session EXCEPT !.is_admin = TRUE]
                /\ resp' = Redirect("admin_dashboard", "")
           ELSE LET student == SelectStudent(db, full_name, password) IN
                IF student # 0
                THEN /\ session' = [session EXCEPT !.user_id = student]
                     /\ resp' = Redirect("student_dashboard", "")
                ELSE /\ resp' = Render("login.html", "Invalid credentials!", <<>>)
                     /\ UNCHANGED session
        /\ UNCHANGED <<db, stepwise>>

register ==
    \/ /\ req' = Get("register")
       /\ resp' = Render("register.html", "", <<>>)
       /\ UNCHANGED <<db, session, stepwise>>
    \/ \E full_name \in Names, password \in RegPasswords,
          room_number \in Rooms, gender \in Genders :
        /\ req' = Req("register", "POST", 0, full_name, password, "", "", NoTime)
        /\ IF UniqueViolation(db, full_name)
           THEN \* sqlite3.IntegrityError: rolled back, reported
                /\ resp' = Render("register.html", DuplicateMsg, <<>>)
                /\ UNCHANGED db
           ELSE /\ db' = InsertStudent(db, full_name, password, room_number, gender)
                /\ resp' = Redirect("login", "Registration successful! Please login.")
        /\ UNCHANGED <<session, stepwise>>

\* a logout that drops the student id and keeps the admin flag
logout_KeepsAdmin ==
    /\ req' = Get("logout")
    /\ session' = [session EXCEPT !.user_id = 0]
    /\ resp' = Redirect("home", "")
    /\ UNCHANGED <<db, stepwise>>

logout ==
    /\ req' = Get("logout")
    /\ session' = EmptySession
    /\ resp' = Redirect("home", "")
    /\ UNCHANGED <<db, stepwise>>

home ==
    /\ req' = Get("home")
    /\ resp' = IF session.user_id # 0
               THEN IF session.is_admin
                    THEN Redirect("admin_dashboard", "")
                    ELSE Redirect("student_dashboard", "")
               ELSE Render("index.html", "", <<>>)
    /\ UNCHANGED <<db, session, stepwise>>

\* SELECT * FROM notifications WHERE student_id = ? AND is_read = 0: the ids, newest first
UnreadNotifications(d, student_id) ==
    LET unread(i) == /\ d.notifications[i].student_id = student_id
                     /\ ~d.notifications[i].is_read
        RECURSIVE newest_first(_)
        newest_first(i) == IF i = 0 THEN <<>>
                           ELSE IF unread(i) THEN <<i>> \o newest_first(i - 1)
                           ELSE newest_first(i - 1)
    IN newest_first(Len(d.notifications))

student_dashboard ==
    /\ req' = Get("student_dashboard")
    /\ resp' = IF ~StudentGate(session)
               THEN Redirect("login", "")
               ELSE Render("student_dashboard.html", "",
                           UnreadNotifications(db, session.user_id))
    /\ UNCHANGED <<db, session, stepwise>>

submit_laundry ==
    /\ req' = Post("submit_laundry")
    /\ IF ~StudentGate(session)
       THEN /\ resp' = Redirect("login", "")
            /\ UNCHANGED db
       ELSE LET student_id == session.user_id
                active_count == count_active_laundry(db, student_id)
            IN IF LimitReached(active_count)
               THEN /\ resp' = Redirect("student_dashboard", LimitMsg)
                    /\ UNCHANGED db
               ELSE /\ db' = InsertLaundry(db, student_id)
                    /\ resp' = Redirect("student_dashboard", "Laundry submitted successfully!")
    /\ UNCHANGED <<session, stepwise>>

submit_complaint ==
    \/ /\ ~StudentGate(session)
       /\ req' = Post("submit_complaint")
       /\ resp' = Redirect("login", "")
       /\ UNCHANGED <<db, session, stepwise>>
    \/ \E laundry_id \in Ids(db.laundry), description \in Descriptions :
        /\ StudentGate(session)
        /\ req' = Req("submit_complaint", "POST", laundry_id, "", "", "", description, NoTime)
        /\ db' = InsertComplaint(db, session.user_id, laundry_id, description)
        /\ resp' = Redirect("student_dashboard", "Complaint submitted successfully!")
        /\ UNCHANGED <<session, stepwise>>

mark_notification_read ==
    \/ /\ ~StudentGate(session)
       /\ req' = Get("mark_notification_read")
       /\ resp' = Redirect("login", "")
       /\ UNCHANGED <<db, session, stepwise>>
    \/ \E notification_id \in Ids(db.notifications) :
        /\ StudentGate(session)
        /\ req' = Req("mark_notification_read", "GET", notification_id, "", "", "", "", NoTime)
        /\ db' = UpdateNotificationRead(db, notification_id)
        /\ resp' = Redirect("student_dashboard", "")
        /\ UNCHANGED <<session, stepwise>>

\* laundry JOIN students: the ids of the bags listed, newest first
admin_dashboard ==
    /\ req' = Get("admin_dashboard")
    /\ resp' = IF ~AdminGate(session)
               THEN Redirect("login", "")
               ELSE Render("admin_dashboard.html", "",
                           [i \in 1..Len(db.laundry) |-> Len(db.laundry) + 1 - i])
    /\ UNCHANGED <<db, session, stepwise>>

\* SELECT student_id FROM laundry WHERE id = ?; fetchone(): None (0) when no row
SelectLaundryOwner(d, laundry_id) ==
    IF laundry_id \in DOMAIN d.laundry THEN d.laundry[laundry_id].student_id ELSE 0

\* SELECT student_id FROM complaints WHERE id = ?; fetchone(): None (0) when no row
SelectComplaintStudent(d, complaint_id) ==
    IF complaint_id \in DOMAIN d.complaints THEN d.complaints[complaint_id].student_id ELSE 0

StatusUpdatedMsg == "Status updated to {new_status}!"

\* a notification on 'collected' too
NeedsNotification_Collected(new_status) == new_status \in {"complete", "collected"}

\* if new_status == 'complete'
NeedsNotification(new_status) == new_status = "complete"

update_status ==
    \/ /\ ~AdminGate(session)
       /\ req' = Post("update_status")
       /\ resp' = Redirect("login", "")
       /\ UNCHANGED <<db, session, stepwise>>
    \/ \E laundry_id \in Ids(db.laundry), new_status \in Statuses :
        /\ AdminGate(session)
        /\ req' = Req("update_status", "POST", laundry_id, "", "", new_status, "", NoTime)
        /\ LET updated == UpdateLaundryStatus(db, laundry_id, new_status)
               student_id == SelectLaundryOwner(updated, laundry_id)
           IN IF NeedsNotification(new_status)
              THEN IF student_id = 0
                   THEN \* fetchone()[0] on None: TypeError, rolled back, not caught
                        /\ resp' = Fault("TypeError")
                        /\ UNCHANGED db
                   ELSE /\ db' = InsertNotification(updated, student_id, ReadyMsg)
                        /\ resp' = Redirect("admin_dashboard", StatusUpdatedMsg)
              ELSE /\ db' = updated
                   /\ resp' = Redirect("admin_dashboard", StatusUpdatedMsg)
        /\ UNCHANGED <<session, stepwise>>

resolve_complaint ==
    \/ /\ ~AdminGate(session)
       /\ req' = Post("resolve_complaint")
       /\ resp' = Redirect("login", "")
       /\ UNCHANGED <<db, session, stepwise>>
    \/ \E complaint_id \in Ids(db.complaints), response \in Responses, now \in Times :
        /\ AdminGate(session)
        /\ req' = Req("resolve_complaint", "POST", complaint_id, "", "", "", response, now)
        /\ LET updated == UpdateComplaintResolved(db, complaint_id, response, now)
               student_id == SelectComplaintStudent(updated, complaint_id)
           IN IF student_id = 0
              THEN \* fetchone()[0] on None: TypeError, rolled back, not caught
                   /\ resp' = Fault("TypeError")
                   /\ UNCHANGED db
              ELSE /\ db' = InsertNotification(updated, student_id, ResolvedMsg(response))
                   /\ resp' = Redirect("admin_dashboard", "Complaint resolved successfully!")
        /\ UNCHANGED <<session, stepwise>>

\* ------------------------------------------------------------- submit_laundry, concurrently
\* Each worker thread handles one request at a time on its own connection.
\* count_active_laundry's with-block and submit_laundry's own with-block are
\* two transactions: other requests commit between them.
race_count(w) ==
    /\ racing[w].pc = "idle"
    /\ IF ~StudentGate(session)
       THEN /\ req' = Post("submit_laundry")
            /\ resp' = Redirect("login", "")
            /\ UNCHANGED racing
       ELSE /\ racing' = [racing EXCEPT ![w] =
                            [pc |-> "counted", student_id |-> session.user_id,
                             active_count |-> count_active_laundry(db, session.user_id)]]
            /\ UNCHANGED <<req, resp>>
    /\ UNCHANGED <<db, session, txn>>

race_insert(w) ==
    /\ racing[w].pc = "counted"
    /\ req' = Post("submit_laundry")
    /\ IF LimitReached(racing[w].active_count)
       THEN /\ resp' = Redirect("student_dashboard", LimitMsg)
            /\ UNCHANGED db
       ELSE /\ db' = InsertLaundry(db, racing[w].student_id)
            /\ resp' = Redirect("student_dashboard", "Laundry submitted successfully!")
    /\ racing' = [racing EXCEPT ![w] = IdleWorker]
    /\ UNCHANGED <<session, txn>>

\* ------------------------------------------------------------- the connection's transaction
\* a connection in autocommit mode: each statement is committed as it runs
Autocommit(d, t, written) == [db |-> written, open |-> FALSE, tx |-> EmptyDb]

\* sqlite3.connect() with the default isolation_level: an INSERT or UPDATE
\* opens a transaction implicitly, and its effect stays in the connection's
\* own view until conn.commit().
Execute(d, t, written) == [db |-> d, open |-> TRUE, tx |-> written]

\* what the connection's statements read
View(d, t) == IF t.open THEN t.tx ELSE d

\* conn.commit()
Commit(d, t) == [db |-> View(d, t), open |-> FALSE, tx |-> EmptyDb]

\* conn.rollback()
Rollback(d, t) == [db |-> d, open |-> FALSE, tx |-> EmptyDb]

\* the store and the request in flight after a statement, commit or rollback
Effect(e, pc, raised) ==
    /\ db' = e.db
    /\ txn' = [txn EXCEPT !.open = e.open, !.tx = e.tx, !.pc = pc, !.raised = raised]

\* ------------------------------------------------------------- update_status and resolve_complaint, statement by statement
\* no admin request is between its gate and its response
Quiet == txn.pc = "idle"

\* the gate, and the form
txn_begin ==
    /\ Quiet
    /\ \/ /\ ~AdminGate(session)
          /\ \E op \in {"update_status", "resolve_complaint"} : req' = Post(op)
          /\ resp' = Redirect("login", "")
          /\ UNCHANGED txn
       \/ /\ AdminGate(session)
          /\ \/ \E laundry_id \in Ids(db.laundry), new_status \in Statuses :
                   txn' = [IdleTxn EXCEPT !.pc = "update", !.op = "update_status",
                                          !.id = laundry_id, !.status = new_status]
             \/ \E complaint_id \in Ids(db.complaints), response \in Responses, now \in Times :
                   txn' = [IdleTxn EXCEPT !.pc = "update", !.op = "resolve_complaint",
                                          !.id = complaint_id, !.response = response,
                                          !.now = now]
          /\ UNCHANGED <<req, resp>>
    /\ UNCHANGED <<db, session, racing>>

\* c.execute('UPDATE ...') in the handler's with-block
txn_update ==
    /\ txn.pc = "update"
    /\ LET view == View(db, txn)
           written == IF txn.op = "update_status"
                      THEN UpdateLaundryStatus(view, txn.id, txn.status)
                      ELSE UpdateComplaintResolved(view, txn.id, txn.response, txn.now)
           pc == IF txn.op = "update_status" /\ ~NeedsNotification(txn.status)
                 THEN "exit" ELSE "select"
       IN Effect(Execute(db, txn, written), pc, "")
    /\ UNCHANGED <<session, req, resp, racing>>

\* c.execute('SELECT student_id ...'); c.fetchone()[0]
txn_select ==
    /\ txn.pc = "select"
    /\ LET student_id == IF txn.op = "update_status"
                         THEN SelectLaundryOwner(View(db, txn), txn.id)
                         ELSE SelectComplaintStudent(View(db, txn), txn.id)
       IN txn' = IF student_id = 0
                 THEN [txn EXCEPT !.pc = "except", !.raised = "TypeError"]
                 ELSE [txn EXCEPT !.pc = "insert", !.student_id = student_id]
    /\ UNCHANGED <<db, session, req, resp, racing>>

\* create_notification: the INSERT in its own with-block, on the same
\* connection; the statement may raise sqlite3.Error
txn_insert ==
    /\ txn.pc = "insert"
    /\ \/ LET message == IF txn.op = "update_status" THEN ReadyMsg
                         ELSE ResolvedMsg(txn.response)
              written == InsertNotification(View(db, txn), txn.student_id, message)
          IN Effect(Execute(db, txn, written), "inner_commit", "")
       \/ /\ txn' = [txn EXCEPT !.pc = "inner_except", !.raised = "sqlite3.Error"]
          /\ UNCHANGED db
    /\ UNCHANGED <<session, req, resp, racing>>

\* create_notification's with-block ends: conn.commit(), which may raise
txn_inner_commit ==
    /\ txn.pc = "inner_commit"
    /\ \/ Effect(Commit(db, txn), "exit", "")
       \/ /\ txn' = [txn EXCEPT !.pc = "inner_except", !.raised = "sqlite3.Error"]
          /\ UNCHANGED db
    /\ UNCHANGED <<session, req, resp, racing>>

\* create_notification's with-block: except Exception: conn.rollback(); raise
txn_inner_except ==
    /\ txn.pc = "inner_except"
    /\ Effect(Rollback(db, txn), "except", txn.raised)
    /\ UNCHANGED <<session, req, resp, racing>>

\* the handler's with-block ends: flash(), then conn.commit(), which may raise
txn_exit ==
    /\ txn.pc = "exit"
    /\ \/ Effect(Commit(db, txn), "respond", "")
       \/ /\ txn.open
          /\ txn' = [txn EXCEPT !.pc = "except", !.raised = "sqlite3.Error"]
          /\ UNCHANGED db
    /\ UNCHANGED <<session, req, resp, racing>>

\* the handler's with-block: except Exception: conn.rollback(); raise
txn_except ==
    /\ txn.pc = "except"
    /\ Effect(Rollback(db, txn), "respond", txn.raised)
    /\ UNCHANGED <<session, req, resp, racing>>

\* except sqlite3.Error: flash(); then the redirect. A TypeError is not caught.
txn_respond ==
    /\ txn.pc = "respond"
    /\ req' = Req(txn.op, "POST", txn.id, "", "", txn.status, txn.response, txn.now)
    /\ resp' = IF txn.raised = ""
               THEN Redirect("admin_dashboard",
                             IF txn.op = "update_status" THEN StatusUpdatedMsg
                             ELSE "Complaint resolved successfully!")
               ELSE IF txn.raised = "sqlite3.Error"
               THEN Redirect("admin_dashboard",
                             IF txn.op = "update_status" THEN "Error updating status: {e}"
                             ELSE "Error resolving complaint: {e}")
               ELSE Fault(txn.raised)
    /\ txn' = IdleTxn
    /\ UNCHANGED <<db, session, racing>>

\* ------------------------------------------------------------- specifications
\* A scope bounds the tables' sizes; the handlers themselves are unbounded.
Within(scope) ==
    /\ Len(db.students) <= scope.students
    /\ Len(db.laundry) + Len(db.complaints) + Len(db.notifications) <= scope.rows

Requests(scope) ==
    \/ login /\ Within(scope)'
    \/ register /\ Within(scope)'
    \/ logout /\ Within(scope)'
    \/ home /\ Within(scope)'
    \/ student_dashboard /\ Within(scope)'
    \/ submit_laundry /\ Within(scope)'
    \/ submit_complaint /\ Within(scope)'
    \/ mark_notification_read /\ Within(scope)'
    \/ admin_dashboard /\ Within(scope)'
    \/ update_status /\ Within(scope)'
    \/ resolve_complaint /\ Within(scope)'

\* requests handled one at a time
Scope == [students |-> MaxStudents, rows |-> MaxRows]

Next == Requests(Scope)

Spec == Init /\ [][Next]_vars

\* the same, with one more row
WideScope == [students |-> MaxStudents, rows |-> MaxRows + 1]

NextWide == Requests(WideScope)

SpecWide == Init /\ [][NextWide]_vars

\* one student's complaints and the admin's resolve_complaint, no
\* update_status, with room for a complaint and two notifications
ResolveScope == [students |-> 1, rows |-> MaxRows + 1]

NextResolve ==
    \/ register /\ Within(ResolveScope)'
    \/ login /\ Within(ResolveScope)'
    \/ logout /\ Within(ResolveScope)'
    \/ home /\ Within(ResolveScope)'
    \/ student_dashboard /\ Within(ResolveScope)'
    \/ mark_notification_read /\ Within(ResolveScope)'
    \/ admin_dashboard /\ Within(ResolveScope)'
    \/ submit_laundry /\ Within(ResolveScope)'
    \/ submit_complaint /\ Within(ResolveScope)'
    \/ resolve_complaint /\ Within(ResolveScope)'

SpecResolve == Init /\ [][NextResolve]_vars

\* one student's bags and the admin's update_status, no complaints, with
\* room for two bags, a notification and a third bag
UnblockScope == [students |-> 1, rows |-> MaxRows + 2]

NextUnblock ==
    \/ register /\ Within(UnblockScope)'
    \/ login /\ Within(UnblockScope)'
    \/ logout /\ Within(UnblockScope)'
    \/ home /\ Within(UnblockScope)'
    \/ student_dashboard /\ Within(UnblockScope)'
    \/ mark_notification_read /\ Within(UnblockScope)'
    \/ admin_dashboard /\ Within(UnblockScope)'
    \/ submit_laundry /\ Within(UnblockScope)'
    \/ update_status /\ Within(UnblockScope)'

SpecUnblock == Init /\ [][NextUnblock]_vars

\* requests of one student racing on submit_laundry, no admin: room for the
\* two bags of the limit, one more for every worker but one, and a last one
RaceScope == [students |-> MaxStudents, rows |-> 2 + (MaxWorkers - 1) + 1]

NextRace ==
    \/ register /\ Within(RaceScope)'
    \/ login /\ Within(RaceScope)'
    \/ \E w \in Workers : race_count(w) /\ Within(RaceScope)'
    \/ \E w \in Workers : race_insert(w) /\ Within(RaceScope)'

SpecRace == Init /\ [][NextRace]_vars

\* an admin request's statements one by one, on one student's rows; between
\* two admin requests, the student's requests that fill the tables
TxnScope == [students |-> 1, rows |-> MaxRows]

NextTxn ==
    \/ Quiet /\ register /\ Within(TxnScope)'
    \/ Quiet /\ login /\ Within(TxnScope)'
    \/ Quiet /\ submit_laundry /\ Within(TxnScope)'
    \/ Quiet /\ submit_complaint /\ Within(TxnScope)'
    \/ txn_begin
    \/ txn_update
    \/ txn_select
    \/ txn_insert
    \/ txn_inner_commit /\ Within(TxnScope)'
    \/ txn_inner_except
    \/ txn_exit /\ Within(TxnScope)'
    \/ txn_except
    \/ txn_respond

SpecTxn == Init /\ [][NextTxn]_vars

\* ------------------------------------------------------------- the claims
\* The claims' own vocabulary, stated on the tables and not through the
\* operators of the handlers.
StudentIds == DOMAIN db.students

\* the bags of a student that are neither collected nor complete
ActiveBags(student) ==
    {i \in DOMAIN db.laundry : /\ db.laundry[i].student_id = student
                               /\ db.laundry[i].status # "collected"
                               /\ db.laundry[i].status # "complete"}

StudentOnly == {"student_dashboard", "submit_laundry", "submit_complaint",
                "mark_notification_read"}
AdminOnly == {"admin_dashboard", "update_status", "resolve_complaint"}

RedirectedToLogin(r) == r.kind = "redirect" /\ r.to = "login"

\* C1: in every state reachable by requests handled one at a time, every
\* student owns at most 2 bags that are neither collected nor complete.
C1_AtMostTwoActive ==
    \A student \in StudentIds : Cardinality(ActiveBags(student)) <= 2

\* C2: submit_laundry of a logged-in student with 2 or more active bags is
\* rejected with the limit message and leaves the store unchanged; with fewer
\* it appends exactly one 'pending' bag of that student and changes nothing else.
C2_SubmitLaundry ==
    [][(req'.op = "submit_laundry" /\ session.user_id # 0) =>
        IF Cardinality(ActiveBags(session.user_id)) >= 2
        THEN /\ db' = db
             /\ resp'.flash = LimitMsg
        ELSE /\ db'.laundry = Append(db.laundry, [student_id |-> session.user_id,
                                                  status |-> "pending"])
             /\ db'.students = db.students
             /\ db'.complaints = db.complaints
             /\ db'.notifications = db.notifications
             /\ resp'.flash # LimitMsg]_vars

\* C2 witness: a submission just rejected at two active bags.
C2_Rejected ==
    /\ req.op = "submit_laundry"
    /\ resp.flash = LimitMsg
    /\ session.user_id # 0
    /\ Cardinality(ActiveBags(session.user_id)) = 2

\* C3: two submit_laundry requests of one student, run concurrently, can both
\* read a count below 2 and both insert: each request in flight can add one
\* bag beyond the limit, and no more than that.
C3_RaceBound ==
    \A student \in StudentIds : Cardinality(ActiveBags(student)) <= 2 + (MaxWorkers - 1)

\* C3 witness: submit_laundry requests alone, each inserting only after it
\* read a count below 2, have left a student with 3 or more active bags.
C3_ThreeActive ==
    /\ req.op = "submit_laundry"
    /\ resp.flash = "Laundry submitted successfully!"
    /\ \A w \in Workers : racing[w].pc = "idle"
    /\ \E student \in StudentIds : Cardinality(ActiveBags(student)) >= 3

\* C4: update_status by an admin on an existing bag sets that bag's status to
\* the given value; 'complete' adds exactly one unread ready-for-collection
\* notification to the bag's owner, any other value adds none; no other bag,
\* complaint or student row changes.
C4_UpdateStatus ==
    [][(req'.op = "update_status" /\ session.is_admin /\ req'.id \in DOMAIN db.laundry) =>
        /\ db'.laundry = [db.laundry EXCEPT ![req'.id].status = req'.status]
        /\ db'.students = db.students
        /\ db'.complaints = db.complaints
        /\ db'.notifications =
              IF req'.status = "complete"
              THEN Append(db.notifications,
                          [student_id |-> db.laundry[req'.id].student_id,
                           message |-> <<"Your laundry is ready for collection!", "">>,
                           is_read |-> FALSE])
              ELSE db.notifications]_vars

\* C4 witness: a bag just set to 'complete', its owner notified.
C4_Completed ==
    /\ req.op = "update_status"
    /\ req.status = "complete"
    /\ req.id \in DOMAIN db.laundry
    /\ db.laundry[req.id].status = "complete"
    /\ resp.flash = StatusUpdatedMsg
    /\ \E n \in DOMAIN db.notifications :
          /\ db.notifications[n].student_id = db.laundry[req.id].student_id
          /\ ~db.notifications[n].is_read

\* C5: the committed store changes only by whole units of work: a bag becomes
\* 'complete' only together with its owner's notification, a complaint is
\* resolved only together with its student's notification, and a notification
\* appears only together with the update of the request in flight; this
\* although create_notification commits and rolls back on the handler's
\* connection, and whether or not the notification insert fails.
C5_Atomic ==
    [][/\ \A b \in DOMAIN db.laundry :
             (db.laundry[b].status # "complete" /\ db'.laundry[b].status = "complete") =>
                 db'.notifications =
                     Append(db.notifications,
                            [student_id |-> db.laundry[b].student_id,
                             message |-> <<"Your laundry is ready for collection!", "">>,
                             is_read |-> FALSE])
       /\ \A c \in DOMAIN db.complaints :
             db'.complaints[c] # db.complaints[c] =>
                 /\ db'.complaints[c].status = "resolved"
                 /\ db'.notifications =
                       Append(db.notifications,
                              [student_id |-> db.complaints[c].student_id,
                               message |-> <<"Your complaint has been resolved. Response: ",
                                             db'.complaints[c].admin_response>>,
                               is_read |-> FALSE])
       /\ Len(db'.notifications) > Len(db.notifications) =>
             LET n == db'.notifications[Len(db'.notifications)] IN
             /\ Len(db'.notifications) = Len(db.notifications) + 1
             /\ \/ /\ txn.op = "update_status"
                   /\ txn.status = "complete"
                   /\ txn.id \in DOMAIN db'.laundry
                   /\ db'.laundry[txn.id].status = "complete"
                   /\ n.student_id = db'.laundry[txn.id].student_id
                \/ /\ txn.op = "resolve_complaint"
                   /\ txn.id \in DOMAIN db'.complaints
                   /\ db'.complaints[txn.id].status = "resolved"
                   /\ db'.complaints[txn.id].admin_response = txn.response
                   /\ db'.complaints[txn.id].date_resolved = txn.now
                   /\ n.student_id = db'.complaints[txn.id].student_id]_vars

\* C5 witness: update_status to 'complete' has run its UPDATE, the notification
\* insert (or its commit) has failed and was rolled back, and the committed
\* store holds neither the status nor a notification.
C5_InsertFailed ==
    /\ txn.pc = "respond"
    /\ txn.op = "update_status"
    /\ txn.status = "complete"
    /\ txn.raised = "sqlite3.Error"
    /\ txn.student_id # 0
    /\ txn.id \in DOMAIN db.laundry
    /\ db.laundry[txn.id].status # "complete"
    /\ db.notifications = <<>>

\* C6: update_status by an admin on a laundry id that does not exist ends, for
\* every status value, in a reported error: a message and a redirect, never
\* success and never an unhandled fault.
C6_MissingBagReported ==
    (req.op = "update_status" /\ req.id > Len(db.laundry)) =>
        /\ resp.kind = "redirect"
        /\ resp.flash # ""
        /\ resp.flash # StatusUpdatedMsg

\* C7: a student-only handler called without a student id in the session, and
\* an admin-only handler called without the admin flag, redirects to login and
\* leaves the store unchanged.
C7_Gate ==
    [][(\/ req'.op \in StudentOnly /\ session.user_id = 0
        \/ req'.op \in AdminOnly /\ ~session.is_admin) =>
            /\ RedirectedToLogin(resp')
            /\ db' = db
            /\ session' = session]_vars

\* C7 witness: a student's session was just turned away by an admin-only handler.
C7_StudentAtAdminHandler ==
    /\ req.op = "update_status"
    /\ session.user_id # 0
    /\ ~session.is_admin
    /\ RedirectedToLogin(resp)
    /\ db.laundry # <<>>

\* C8: a session never holds a student id and the admin flag at the same time.
C8_OneIdentity == ~(session.user_id # 0 /\ session.is_admin)

\* C9: full_name is unique among students in every state; a register request
\* with an existing name fails with the duplicate-name message and changes
\* neither the store nor the session; one with a new name appends exactly one row.
C9_UniqueName ==
    /\ [](\A i, j \in StudentIds :
             db.students[i].full_name = db.students[j].full_name => i = j)
    /\ [][(req'.op = "register" /\ req'.method = "POST") =>
            /\ session' = session
            /\ db'.laundry = db.laundry
            /\ db'.complaints = db.complaints
            /\ db'.notifications = db.notifications
            /\ IF \E i \in StudentIds : db.students[i].full_name = req'.full_name
               THEN /\ db'.students = db.students
                    /\ resp'.flash = DuplicateMsg
               ELSE /\ Len(db'.students) = Len(db.students) + 1
                    /\ SubSeq(db'.students, 1, Len(db.students)) = db.students
                    /\ db'.students[Len(db'.students)].full_name = req'.full_name
                    /\ resp'.flash # DuplicateMsg]_vars

\* C9 witness: a registration just refused for its name, one row holding it.
C9_DuplicateRefused ==
    /\ req.op = "register"
    /\ resp.flash = DuplicateMsg
    /\ Cardinality({i \in StudentIds : db.students[i].full_name = req.full_name}) = 1

\* C10: every complaint's laundry_id is the id of a bag, and every complaint's,
\* bag's and notification's student_id is the id of a student.
C10_References ==
    /\ \A c \in DOMAIN db.complaints :
          /\ db.complaints[c].laundry_id \in DOMAIN db.laundry
          /\ db.complaints[c].student_id \in StudentIds
    /\ \A b \in DOMAIN db.laundry : db.laundry[b].student_id \in StudentIds
    /\ \A n \in DOMAIN db.notifications : db.notifications[n].student_id \in StudentIds

\* the notification resolve_complaint sends to a student
ResolvedNotice(student, response) ==
    [student_id |-> student,
     message |-> <<"Your complaint has been resolved. Response: ", response>>,
     is_read |-> FALSE]

\* C11: each resolve_complaint call of an admin on an existing complaint sets
\* status 'resolved', admin_response and date_resolved to the call's values, and
\* appends exactly one notification embedding the call's response to the
\* complaint's student; a second call on the same complaint, right after a
\* first, leaves the second call's response and date on the complaint and the
\* two calls' notifications, first then second, at the end of the table.
C11_ResolveTwice ==
    [][(req'.op = "resolve_complaint" /\ session.is_admin /\ req'.id \in DOMAIN db.complaints) =>
        LET c == req'.id
            student == db.complaints[c].student_id
            n == Len(db'.notifications)
        IN /\ db'.complaints = [db.complaints EXCEPT ![c] =
                                   [@ EXCEPT !.status = "resolved",
                                             !.admin_response = req'.text,
                                             !.date_resolved = req'.now]]
           /\ db'.notifications = Append(db.notifications, ResolvedNotice(student, req'.text))
           /\ db'.laundry = db.laundry
           /\ db'.students = db.students
           /\ (req.op = "resolve_complaint" /\ req.id = c /\ resp.kind = "redirect") =>
                 /\ n = Len(db.notifications) + 1
                 /\ n >= 2
                 /\ db'.notifications[n - 1] = ResolvedNotice(student, req.text)
                 /\ db'.notifications[n] = ResolvedNotice(student, req'.text)
                 /\ db'.complaints[c].status = "resolved"
                 /\ db'.complaints[c].admin_response = req'.text
                 /\ db'.complaints[c].date_resolved = req'.now]_vars

\* C11 witness: a complaint resolved with r1 and then with r2:
\* it holds r2 and the second date, its student both notifications.
C11_ResolvedAgain ==
    /\ req.op = "resolve_complaint"
    /\ req.text = "r2"
    /\ req.id \in DOMAIN db.complaints
    /\ db.complaints[req.id].admin_response = "r2"
    /\ db.complaints[req.id].date_resolved = req.now
    /\ Len(db.notifications) = 2
    /\ db.notifications[1] = ResolvedNotice(db.complaints[req.id].student_id, "r1")
    /\ db.notifications[2] = ResolvedNotice(db.complaints[req.id].student_id, "r2")

\* C12: GET / sends a session that holds only the admin flag (an admin login
\* from an anonymous session) to the admin dashboard, a session that holds only
\* a student id to the student dashboard, and shows the landing page to the
\* empty session only.
C12_HomeBySession ==
    req.op = "home" =>
        /\ (session.is_admin /\ session.user_id = 0) =>
               (resp.kind = "redirect" /\ resp.to = "admin_dashboard")
        /\ (session.user_id # 0 /\ ~session.is_admin) =>
               (resp.kind = "redirect" /\ resp.to = "student_dashboard")
        /\ (resp.kind = "render" /\ resp.to = "index.html") =>
               (session.user_id = 0 /\ ~session.is_admin)

\* C13: a notification's is_read flag changes only in a step of a session that
\* holds the id of the notification's student.
C13_OwnerMarksRead ==
    [][\A n \in DOMAIN db.notifications :
          db'.notifications[n].is_read # db.notifications[n].is_read =>
              session.user_id = db.notifications[n].student_id]_vars

\* the bags of a student with a given status
BagsWith(student, status) ==
    {i \in DOMAIN db.laundry : /\ db.laundry[i].student_id = student
                               /\ db.laundry[i].status = status}

\* the bags of a student
BagsOf(student) == {i \in DOMAIN db.laundry : db.laundry[i].student_id = student}

\* C14: for every student id, registered or not, count_active_laundry is the
\* number of the student's bags less the 'collected' and the 'complete' ones
\* (a bag with any other status, 'washing' say, is counted; another student's
\* bag is not); and the request that calls it with the limit reached, which
\* does nothing else, leaves the store unchanged.
C14_CountActive ==
    /\ [](\A student \in 0..(MaxStudents + 1) :
             count_active_laundry(db, student) =
                 Cardinality(BagsOf(student)) - Cardinality(BagsWith(student, "collected"))
                                              - Cardinality(BagsWith(student, "complete")))
    /\ [][(/\ req'.op = "submit_laundry"
           /\ session.user_id # 0
           /\ resp'.flash = LimitMsg) => db' = db]_vars

\* C14 witness: a submission refused on a count of 2, one of the two bags
\* counted 'washing'.
C14_WashingCounted ==
    /\ req.op = "submit_laundry"
    /\ resp.flash = LimitMsg
    /\ session.user_id # 0
    /\ BagsWith(session.user_id, "washing") # {}
    /\ Cardinality(BagsOf(session.user_id)) - Cardinality(BagsWith(session.user_id, "collected")) = 2

\* C15: resolve_complaint by an admin on a complaint id that does not exist
\* ends in a message and a redirect, not in an unhandled fault.
C15_MissingComplaintReported ==
    (req.op = "resolve_complaint" /\ req.id > Len(db.complaints)) =>
        /\ resp.kind = "redirect"
        /\ resp.flash # ""

\* the notifications a student's dashboard lists: the student's own, unread
Unread(student) ==
    {n \in DOMAIN db.notifications : /\ db.notifications[n].student_id = student
                                     /\ ~db.notifications[n].is_read}

\* C16: mark_notification_read(id) in a student's session sets is_read on the
\* notification with that id and changes no other notification and no other
\* table; after it the notification is not among its owner's unread ones; and
\* no step of any operation makes a read notification unread.
C16_MarkRead ==
    /\ [][(req'.op = "mark_notification_read" /\ session.user_id # 0) =>
            /\ db'.students = db.students
            /\ db'.laundry = db.laundry
            /\ db'.complaints = db.complaints
            /\ Len(db'.notifications) = Len(db.notifications)
            /\ \A n \in DOMAIN db.notifications :
                  db'.notifications[n] =
                      IF n = req'.id THEN [db.notifications[n] EXCEPT !.is_read = TRUE]
                      ELSE db.notifications[n]
            /\ \A student \in StudentIds : req'.id \notin Unread(student)']_vars
    /\ [][\A n \in DOMAIN db.notifications :
             db.notifications[n].is_read => db'.notifications[n].is_read]_vars

\* C16 witness: a notification just marked read, and no unread notification
\* left for its owner's dashboard.
C16_ReadStaysRead ==
    /\ req.op = "mark_notification_read"
    /\ req.id \in DOMAIN db.notifications
    /\ db.notifications[req.id].is_read
    /\ resp.kind = "redirect"
    /\ resp.to = "student_dashboard"
    /\ Unread(db.notifications[req.id].student_id) = {}

\* C17: a step changes the status of an existing bag only if it is an
\* update_status request on that bag in a session with the admin flag; no step
\* changes a bag's owner; and no step removes a row of any table.
C17_StatusByAdminOnly ==
    [][/\ \A b \in DOMAIN db.laundry :
             /\ b \in DOMAIN db'.laundry
             /\ db'.laundry[b].student_id = db.laundry[b].student_id
             /\ db'.laundry[b].status # db.laundry[b].status =>
                    /\ req'.op = "update_status"
                    /\ req'.id = b
                    /\ session.is_admin
       /\ req'.op \in {"register", "login", "logout", "submit_laundry", "submit_complaint",
                       "mark_notification_read", "resolve_complaint"} =>
             SubSeq(db'.laundry, 1, Len(db.laundry)) = db.laundry
       /\ Len(db'.students) >= Len(db.students)
       /\ Len(db'.laundry) >= Len(db.laundry)
       /\ Len(db'.complaints) >= Len(db.complaints)
       /\ Len(db'.notifications) >= Len(db.notifications)]_vars

\* C17 witness: a student's request has added a row next to a bag the admin
\* had set to 'washing', and the bag is still 'washing'.
C17_BagKeptStatus ==
    /\ req.op = "submit_complaint"
    /\ resp.flash = "Complaint submitted successfully!"
    /\ req.id \in DOMAIN db.laundry
    /\ db.laundry[req.id].status = "washing"
    /\ db.complaints # <<>>

Anonymous(sess) == sess.user_id = 0 /\ ~sess.is_admin

\* C18: logout leaves the session anonymous whatever it held; an anonymous
\* session stays anonymous until a login request succeeds in it; and every
\* student-only and admin-only handler called in an anonymous session
\* redirects to login and changes nothing in the store.
C18_AfterLogout ==
    [][/\ req'.op = "logout" => (Anonymous(session') /\ db' = db)
       /\ (Anonymous(session) /\ ~Anonymous(session')) =>
             /\ req'.op = "login"
             /\ req'.method = "POST"
             /\ resp'.kind = "redirect"
       /\ (Anonymous(session) /\ req'.op \in StudentOnly \cup AdminOnly) =>
             /\ resp'.kind = "redirect"
             /\ resp'.to = "login"
             /\ db' = db
             /\ Anonymous(session')]_vars

\* C18 witness: after a student's and an admin's requests (a notification was
\* sent) the session is empty again, and an admin-only handler has just turned
\* it away.
C18_TurnedAwayAfterLogout ==
    /\ Anonymous(session)
    /\ req.op = "resolve_complaint"
    /\ RedirectedToLogin(resp)
    /\ db.notifications # <<>>

\* C19: when an admin has just set a bag to 'complete' or 'collected' and its
\* owner is left with 1 active bag (2 before, the bag one of them), the owner's
\* submit_laundry as the very next request inserts a 'pending' bag; when the
\* admin has set the bag to any other status and the owner has 2 active bags,
\* the owner's next submit_laundry is refused and changes nothing.
C19_Unblocked ==
    [][(/\ req.op = "update_status"
        /\ req.id \in DOMAIN db.laundry
        /\ resp.flash = StatusUpdatedMsg
        /\ req'.op = "submit_laundry"
        /\ session.user_id = db.laundry[req.id].student_id) =>
          LET owner == db.laundry[req.id].student_id IN
          /\ (req.status \in {"complete", "collected"}
                 /\ Cardinality(ActiveBags(owner)) = 1) =>
                /\ db'.laundry = Append(db.laundry, [student_id |-> owner, status |-> "pending"])
                /\ resp'.flash = "Laundry submitted successfully!"
          /\ (req.status \notin {"complete", "collected"}
                 /\ Cardinality(ActiveBags(owner)) = 2) =>
                /\ db' = db
                /\ resp'.flash = LimitMsg]_vars

\* C19 witness: a student with three bags, one of them 'complete' and its
\* notification sent, whose third bag has just been accepted.
C19_ThirdBagAccepted ==
    /\ req.op = "submit_laundry"
    /\ resp.flash = "Laundry submitted successfully!"
    /\ session.user_id # 0
    /\ Cardinality(BagsOf(session.user_id)) = 3
    /\ Cardinality(BagsWith(session.user_id, "complete")) = 1
    /\ Cardinality(ActiveBags(session.user_id)) = 2
    /\ db.laundry[3].status = "pending"
    /\ Len(db.notifications) = 1

\* C20: a complaint's status is 'pending' or 'resolved'; its admin_response
\* and its date_resolved are set (not NULL) exactly when it is 'resolved'; a
\* new complaint is 'pending'; and no step takes a 'resolved' complaint back
\* to 'pending'.
C20_ComplaintMonotone ==
    /\ [](\A c \in DOMAIN db.complaints :
             /\ db.complaints[c].status \in {"pending", "resolved"}
             /\ db.complaints[c].status = "resolved" <=> db.complaints[c].admin_response # NULL
             /\ db.complaints[c].status = "resolved" <=> db.complaints[c].date_resolved # NoTime)
    /\ [][/\ \A c \in DOMAIN db.complaints :
                /\ c \in DOMAIN db'.complaints
                /\ db.complaints[c].status = "resolved" => db'.complaints[c].status = "resolved"
          /\ \A c \in DOMAIN db'.complaints \ DOMAIN db.complaints :
                /\ db'.complaints[c].status = "pending"
                /\ db'.complaints[c].admin_response = NULL
                /\ db'.complaints[c].date_resolved = NoTime]_vars

\* C20 witness: a complaint was resolved, its student has since read the
\* notification, and the complaint is still 'resolved' with its response and date.
C20_StillResolved ==
    /\ req.op = "mark_notification_read"
    /\ req.id \in DOMAIN db.notifications
    /\ db.notifications[req.id].is_read
    /\ db.notifications[req.id].message[1] = "Your complaint has been resolved. Response: "
    /\ \E c \in DOMAIN db.complaints :
          /\ db.complaints[c].status = "resolved"
          /\ db.complaints[c].admin_response = db.notifications[req.id].message[2]
          /\ db.complaints[c].date_resolved \in Times

====
